---------------------------- MODULE Spec2Model ----------------------------
(***************************************************************************)
(* The Erc1155 multi-token ledger of src/example/erc1155/lib.rs as a state *)
(* machine.  The contract owns two maps, balances and operator_approvals.  *)
(* Every message is one atomic step.  What a message hands back (its       *)
(* Result and the events it emitted through env().emit_event) is kept in   *)
(* result and events until the host takes it; the host starts the next     *)
(* message only after that.                                                *)
(***************************************************************************)
EXTENDS Integers, Sequences, FiniteSets, TLC

(***************************************************************************)
(* Bounds of the model.                                                    *)
(***************************************************************************)
\* TokenBalance is u128; the model keeps the unsigned width but scales it.
TokenBalanceBits == 1
\* accounts are 0 (the zero account) .. MaxAccount
MaxAccount == 2
\* token ids are 1 .. MaxTokenId
MaxTokenId == 2
\* longest ids / values / accounts vector passed to a batch message
MaxLen == 2

\* AccountId::from([0x0; 32])
ZeroAccount == 0

AccountId == ZeroAccount..MaxAccount
TokenId == 1..MaxTokenId
Modulus == 2 ^ TokenBalanceBits
MaxBalance == Modulus - 1
TokenBalance == 0..MaxBalance
\* self.env().caller(): an account that can sign, never the zero account
Callers == AccountId \ {ZeroAccount}

SeqsUpTo(S, n) == UNION {[1..k -> S] : k \in 0..n}
IdVecs == SeqsUpTo(TokenId, MaxLen)
ValueVecs == SeqsUpTo(TokenBalance, MaxLen)
AccountVecs == SeqsUpTo(AccountId, MaxLen)

VARIABLES
    balances,            \* StorageHashMap<(AccountId, TokenId), TokenBalance>
    operator_approvals,  \* StorageHashMap<(AccountId, AccountId), bool>
    overflow_checks,     \* the build: TRUE, u128 overflow panics; FALSE, it wraps
    result,              \* the message just executed and what it returned
    events               \* the events that message emitted

vars == <<balances, operator_approvals, overflow_checks, result, events>>

\* the fields of the contract, as one value
Erc1155 == [balances |-> balances, operator_approvals |-> operator_approvals]

\* Erc1155::new(): both maps empty
new == [balances |-> <<>>, operator_approvals |-> <<>>]

\* no message is waiting to be taken by the host
NoCall == [op |-> "none", status |-> "none", value |-> <<>>]

(***************************************************************************)
(* StorageHashMap                                                          *)
(***************************************************************************)
\* HashMap::insert: adds the key or overwrites its value
insert(map, key, value) ==
    [k \in (DOMAIN map) \cup {key} |-> IF k = key THEN value ELSE map[k]]

\* fn balance_of_or_zero
balance_of_or_zero(self, account, id) ==
    IF <<account, id>> \in DOMAIN self.balances
    THEN self.balances[<<account, id>>]
    ELSE 0

\* approved_for_all answering true for a pair without an entry
approved_for_all_default_true(self, account, operator) ==
    IF <<account, operator>> \in DOMAIN self.operator_approvals
    THEN self.operator_approvals[<<account, operator>>]
    ELSE TRUE

\* fn approved_for_all
approved_for_all(self, account, operator) ==
    IF <<account, operator>> \in DOMAIN self.operator_approvals
    THEN self.operator_approvals[<<account, operator>>]
    ELSE FALSE

\* self.balances.insert((account, id), value)
put_balance(self, account, id, value) ==
    [self EXCEPT !.balances = insert(self.balances, <<account, id>>, value)]

(***************************************************************************)
(* u128 `+`.  Whether a sum that does not fit panics or wraps is decided   *)
(* by the overflow-checks setting of the build profile, which the contract *)
(* source does not fix: overflow_checks is either from the start.          *)
(***************************************************************************)
add_overflows(a, b) == a + b > MaxBalance

add_u128(a, b) == (a + b) % Modulus

(***************************************************************************)
(* The private helpers.  Each returns [status, self]: status is "Ok", the  *)
(* Error returned, or "Panic"; self is the contract as the helper left it. *)
(***************************************************************************)
\* fn add_token_to
add_token_to(self, to, id, value) ==
    LET to_balance == balance_of_or_zero(self, to, id)
    IN  IF add_overflows(to_balance, value) /\ overflow_checks
        THEN [status |-> "Panic", self |-> self]
        ELSE [status |-> "Ok",
              self |-> put_balance(self, to, id, add_u128(to_balance, value))]

\* fn remove_token_from
remove_token_from(self, from, id, value) ==
    LET from_balance == balance_of_or_zero(self, from, id)
    IN  IF from_balance < value
        THEN [status |-> "InsufficientBalance", self |-> self]
        ELSE [status |-> "Ok",
              self |-> put_balance(self, from, id, from_balance - value)]

\* transfer_token_from without its balance check: the debit wraps
transfer_token_from_unchecked(self, from, to, id, value) ==
    LET from_balance == balance_of_or_zero(self, from, id)
        debited == put_balance(self, from, id,
                               (from_balance + Modulus - value) % Modulus)
        to_balance == balance_of_or_zero(debited, to, id)
    IN  [status |-> "Ok",
         self |-> put_balance(debited, to, id, add_u128(to_balance, value))]

\* fn transfer_token_from
transfer_token_from(self, from, to, id, value) ==
    LET from_balance == balance_of_or_zero(self, from, id)
    IN  IF from_balance < value
        THEN [status |-> "InsufficientBalance", self |-> self]
        ELSE LET debited == put_balance(self, from, id, from_balance - value)
                 to_balance == balance_of_or_zero(debited, to, id)
             IN  IF add_overflows(to_balance, value) /\ overflow_checks
                 THEN [status |-> "Panic", self |-> debited]
                 ELSE [status |-> "Ok",
                       self |-> put_balance(debited, to, id,
                                            add_u128(to_balance, value))]

(***************************************************************************)
(* The events.                                                             *)
(***************************************************************************)
TransferSingle(operator, from, to, id, value) ==
    [event |-> "TransferSingle", operator |-> operator, from |-> from,
     to |-> to, id |-> id, value |-> value]

TransferBatch(operator, from, to, ids, values) ==
    [event |-> "TransferBatch", operator |-> operator, from |-> from,
     to |-> to, ids |-> ids, values |-> values]

ApprovalForAll(account, operator, approved) ==
    [event |-> "ApprovalForAll", account |-> account, operator |-> operator,
     approved |-> approved]

(***************************************************************************)
(* The messages.  Each returns [status, self, events, value]: what the     *)
(* caller gets back, the contract as the message left it, the events it    *)
(* emitted, and the value inside Ok for the messages that return one.      *)
(***************************************************************************)
Return(status, self, emitted) ==
    [status |-> status, self |-> self, events |-> emitted, value |-> <<>>]

\* pub fn balance_of
balance_of(self, account, id) == balance_of_or_zero(self, account, id)

\* pub fn is_approved_for_all
is_approved_for_all(self, account, operator) ==
    approved_for_all(self, account, operator)

\* balance_of_batch looking every account up under the first id
balance_of_batch_first_id(self, accounts, ids) ==
    IF Len(accounts) # Len(ids)
    THEN Return("InvalidArrayLength", self, <<>>)
    ELSE [status |-> "Ok", self |-> self, events |-> <<>>,
          value |-> [i \in 1..Len(accounts) |->
                        balance_of_or_zero(self, accounts[i], ids[1])]]

\* pub fn balance_of_batch
balance_of_batch(self, accounts, ids) ==
    IF Len(accounts) # Len(ids)
    THEN Return("InvalidArrayLength", self, <<>>)
    ELSE [status |-> "Ok", self |-> self, events |-> <<>>,
          value |-> [i \in 1..Len(accounts) |->
                        balance_of_or_zero(self, accounts[i], ids[i])]]

\* set_approval_for_all without the check of operator against caller
set_approval_for_all_no_self_check(self, caller, operator, approved) ==
    Return("Ok",
           [self EXCEPT !.operator_approvals =
               insert(self.operator_approvals, <<caller, operator>>, approved)],
           <<ApprovalForAll(caller, operator, approved)>>)

\* set_approval_for_all that inserts a new entry but never updates one
set_approval_for_all_insert_only(self, caller, operator, approved) ==
    IF operator = caller
    THEN Return("ApprovalForSelf", self, <<>>)
    ELSE Return("Ok",
                IF <<caller, operator>> \in DOMAIN self.operator_approvals
                THEN self
                ELSE [self EXCEPT !.operator_approvals =
                         insert(self.operator_approvals, <<caller, operator>>,
                                approved)],
                <<ApprovalForAll(caller, operator, approved)>>)

\* pub fn set_approval_for_all
set_approval_for_all(self, caller, operator, approved) ==
    LET stored == [self EXCEPT !.operator_approvals =
                      insert(self.operator_approvals, <<caller, operator>>,
                             approved)]
        emitted == <<ApprovalForAll(caller, operator, approved)>>
    IN  IF operator = caller
        THEN Return("ApprovalForSelf", self, <<>>)
        ELSE IF approved_for_all(self, caller, operator)
        THEN \* get_mut(&(caller, operator)).ok_or(Error::CannotFetchValue)?
             IF <<caller, operator>> \notin DOMAIN self.operator_approvals
             THEN Return("CannotFetchValue", self, <<>>)
             ELSE \* *status = approved
                  Return("Ok", stored, emitted)
        ELSE \* self.operator_approvals.insert((caller, operator), approved)
             Return("Ok", stored, emitted)

\* safe_transfer_from with the commented-out owner-or-approved check enabled
safe_transfer_from_authorized(self, caller, from, to, id, value) ==
    IF to = ZeroAccount
    THEN Return("InvalidZeroAccount", self, <<>>)
    ELSE IF ~(from = caller \/ approved_for_all(self, from, caller))
    THEN Return("NotOwnerOrNotApproved", self, <<>>)
    ELSE LET r == transfer_token_from(self, from, to, id, value)
         IN  IF r.status # "Ok"
             THEN Return(r.status, r.self, <<>>)
             ELSE Return("Ok", r.self,
                         <<TransferSingle(caller, from, to, id, value)>>)

\* pub fn safe_transfer_from
safe_transfer_from(self, caller, from, to, id, value) ==
    IF to = ZeroAccount
    THEN Return("InvalidZeroAccount", self, <<>>)
    ELSE LET r == transfer_token_from(self, from, to, id, value)
         IN  IF r.status # "Ok"
             THEN Return(r.status, r.self, <<>>)
             ELSE Return("Ok", r.self,
                         <<TransferSingle(caller, from, to, id, value)>>)

\* the transfer loop checking the balance at its first index only
RECURSIVE transfer_each_first_checked(_, _, _, _, _, _)
transfer_each_first_checked(self, from, to, ids, values, i) ==
    IF i > Len(ids)
    THEN [status |-> "Ok", self |-> self]
    ELSE LET r == IF i = 1
                  THEN transfer_token_from(self, from, to, ids[i], values[i])
                  ELSE transfer_token_from_unchecked(self, from, to, ids[i],
                                                     values[i])
         IN  IF r.status # "Ok"
             THEN r
             ELSE transfer_each_first_checked(r.self, from, to, ids, values,
                                              i + 1)

\* the loop of safe_batch_transfer_from, from index i on
RECURSIVE transfer_each(_, _, _, _, _, _)
transfer_each(self, from, to, ids, values, i) ==
    IF i > Len(ids)
    THEN [status |-> "Ok", self |-> self]
    ELSE LET r == transfer_token_from(self, from, to, ids[i], values[i])
         IN  IF r.status # "Ok"
             THEN r
             ELSE transfer_each(r.self, from, to, ids, values, i + 1)

\* safe_batch_transfer_from with its two checks in the order of mint_batch
safe_batch_transfer_from_zero_first(self, caller, from, to, ids, values) ==
    IF to = ZeroAccount
    THEN Return("InvalidZeroAccount", self, <<>>)
    ELSE IF Len(ids) # Len(values)
    THEN Return("InvalidArrayLength", self, <<>>)
    ELSE LET r == transfer_each(self, from, to, ids, values, 1)
         IN  IF r.status # "Ok"
             THEN Return(r.status, r.self, <<>>)
             ELSE Return("Ok", r.self,
                         <<TransferBatch(caller, from, to, ids, values)>>)

\* pub fn safe_batch_transfer_from
safe_batch_transfer_from(self, caller, from, to, ids, values) ==
    IF Len(ids) # Len(values)
    THEN Return("InvalidArrayLength", self, <<>>)
    ELSE IF to = ZeroAccount
    THEN Return("InvalidZeroAccount", self, <<>>)
    ELSE LET r == transfer_each(self, from, to, ids, values, 1)
         IN  IF r.status # "Ok"
             THEN Return(r.status, r.self, <<>>)
             ELSE Return("Ok", r.self,
                         <<TransferBatch(caller, from, to, ids, values)>>)

\* mint emitting the caller as from and the zero account as operator
mint_event_swapped(self, caller, to, id, value) ==
    IF to = ZeroAccount
    THEN Return("InvalidZeroAccount", self, <<>>)
    ELSE LET r == add_token_to(self, to, id, value)
         IN  IF r.status # "Ok"
             THEN Return(r.status, r.self, <<>>)
             ELSE Return("Ok", r.self,
                         <<TransferSingle(ZeroAccount, caller, to, id, value)>>)

\* mint crediting the caller instead of to
mint_credits_caller(self, caller, to, id, value) ==
    IF to = ZeroAccount
    THEN Return("InvalidZeroAccount", self, <<>>)
    ELSE LET r == add_token_to(self, caller, id, value)
         IN  IF r.status # "Ok"
             THEN Return(r.status, r.self, <<>>)
             ELSE Return("Ok", r.self,
                         <<TransferSingle(caller, ZeroAccount, to, id, value)>>)

\* pub fn mint
mint(self, caller, to, id, value) ==
    IF to = ZeroAccount
    THEN Return("InvalidZeroAccount", self, <<>>)
    ELSE LET r == add_token_to(self, to, id, value)
         IN  IF r.status # "Ok"
             THEN Return(r.status, r.self, <<>>)
             ELSE Return("Ok", r.self,
                         <<TransferSingle(caller, ZeroAccount, to, id, value)>>)

\* the loop of mint_batch, from index i on
RECURSIVE mint_each(_, _, _, _, _)
mint_each(self, to, ids, values, i) ==
    IF i > Len(ids)
    THEN [status |-> "Ok", self |-> self]
    ELSE LET r == add_token_to(self, to, ids[i], values[i])
         IN  IF r.status # "Ok"
             THEN r
             ELSE mint_each(r.self, to, ids, values, i + 1)

\* mint_batch without its zero-account check
mint_batch_no_zero_check(self, caller, to, ids, values) ==
    IF Len(ids) # Len(values)
    THEN Return("InvalidArrayLength", self, <<>>)
    ELSE LET r == mint_each(self, to, ids, values, 1)
         IN  IF r.status # "Ok"
             THEN Return(r.status, r.self, <<>>)
             ELSE Return("Ok", r.self,
                         <<TransferBatch(caller, ZeroAccount, to, ids, values)>>)

\* pub fn mint_batch
mint_batch(self, caller, to, ids, values) ==
    IF to = ZeroAccount
    THEN Return("InvalidZeroAccount", self, <<>>)
    ELSE IF Len(ids) # Len(values)
    THEN Return("InvalidArrayLength", self, <<>>)
    ELSE LET r == mint_each(self, to, ids, values, 1)
         IN  IF r.status # "Ok"
             THEN Return(r.status, r.self, <<>>)
             ELSE Return("Ok", r.self,
                         <<TransferBatch(caller, ZeroAccount, to, ids, values)>>)

\* pub fn burn
burn(self, caller, from, id, value) ==
    IF from = ZeroAccount
    THEN Return("InvalidZeroAccount", self, <<>>)
    ELSE LET r == remove_token_from(self, from, id, value)
         IN  IF r.status # "Ok"
             THEN Return(r.status, r.self, <<>>)
             ELSE Return("Ok", r.self,
                         <<TransferSingle(caller, from, ZeroAccount, id, value)>>)

\* the loop of burn_batch going on after an index that failed
RECURSIVE burn_each_continue(_, _, _, _, _)
burn_each_continue(self, from, ids, values, i) ==
    IF i > Len(ids)
    THEN [status |-> "Ok", self |-> self]
    ELSE LET r == remove_token_from(self, from, ids[i], values[i])
             rest == burn_each_continue(r.self, from, ids, values, i + 1)
         IN  IF r.status # "Ok"
             THEN [status |-> r.status, self |-> rest.self]
             ELSE rest

\* the loop of burn_batch, from index i on
RECURSIVE burn_each(_, _, _, _, _)
burn_each(self, from, ids, values, i) ==
    IF i > Len(ids)
    THEN [status |-> "Ok", self |-> self]
    ELSE LET r == remove_token_from(self, from, ids[i], values[i])
         IN  IF r.status # "Ok"
             THEN r
             ELSE burn_each(r.self, from, ids, values, i + 1)

\* burn_batch with its two checks in the order of safe_batch_transfer_from
burn_batch_length_first(self, caller, from, ids, values) ==
    IF Len(ids) # Len(values)
    THEN Return("InvalidArrayLength", self, <<>>)
    ELSE IF from = ZeroAccount
    THEN Return("InvalidZeroAccount", self, <<>>)
    ELSE LET r == burn_each(self, from, ids, values, 1)
         IN  IF r.status # "Ok"
             THEN Return(r.status, r.self, <<>>)
             ELSE Return("Ok", r.self,
                         <<TransferBatch(caller, from, ZeroAccount, ids, values)>>)

\* pub fn burn_batch
burn_batch(self, caller, from, ids, values) ==
    IF from = ZeroAccount
    THEN Return("InvalidZeroAccount", self, <<>>)
    ELSE IF Len(ids) # Len(values)
    THEN Return("InvalidArrayLength", self, <<>>)
    ELSE LET r == burn_each(self, from, ids, values, 1)
         IN  IF r.status # "Ok"
             THEN Return(r.status, r.self, <<>>)
             ELSE Return("Ok", r.self,
                         <<TransferBatch(caller, from, ZeroAccount, ids, values)>>)

(***************************************************************************)
(* The state machine.                                                      *)
(***************************************************************************)
Init ==
    /\ balances = new.balances
    /\ operator_approvals = new.operator_approvals
    /\ overflow_checks \in BOOLEAN
    /\ result = NoCall
    /\ events = <<>>

\* the contract after a message that started in self and returned r
committed(self, r) == IF r.status = "Panic" THEN self ELSE r.self

\* The host runs message op to completion; r is what the message returned.
\* A message that returns, Ok or Err, leaves its writes in the contract.  A
\* message that panics traps: the host drops the writes and the events of
\* the call.
Execute(op, r) ==
    /\ balances' = committed(Erc1155, r).balances
    /\ operator_approvals' = committed(Erc1155, r).operator_approvals
    /\ events' = IF r.status = "Panic" THEN <<>> ELSE r.events
    /\ result' = [op |-> op, status |-> r.status, value |-> r.value]
    /\ UNCHANGED overflow_checks

\* the value a read-only message (&self) hands back
Value(self, value) ==
    [status |-> "Ok", self |-> self, events |-> <<>>, value |-> <<value>>]

BalanceOf ==
    /\ result = NoCall
    /\ \E account \in AccountId, id \in TokenId :
        Execute("balance_of", Value(Erc1155, balance_of(Erc1155, account, id)))

IsApprovedForAll ==
    /\ result = NoCall
    /\ \E account \in AccountId, operator \in AccountId :
        Execute("is_approved_for_all",
                Value(Erc1155, is_approved_for_all(Erc1155, account, operator)))

BalanceOfBatch ==
    /\ result = NoCall
    /\ \E accounts \in AccountVecs, ids \in IdVecs :
        Execute("balance_of_batch", balance_of_batch(Erc1155, accounts, ids))

\* the operators tried are the accounts that can call
SetApprovalForAll ==
    /\ result = NoCall
    /\ \E caller \in Callers, operator \in AccountId \ {ZeroAccount},
       approved \in BOOLEAN :
        Execute("set_approval_for_all",
                set_approval_for_all(Erc1155, caller, operator, approved))

SafeTransferFrom ==
    /\ result = NoCall
    /\ \E caller \in Callers, from \in AccountId, to \in AccountId,
       id \in TokenId, value \in TokenBalance :
        Execute("safe_transfer_from",
                safe_transfer_from(Erc1155, caller, from, to, id, value))

SafeBatchTransferFrom ==
    /\ result = NoCall
    /\ \E caller \in Callers, from \in AccountId, to \in AccountId,
       ids \in IdVecs, values \in ValueVecs :
        Execute("safe_batch_transfer_from",
                safe_batch_transfer_from(Erc1155, caller, from, to, ids, values))

Mint ==
    /\ result = NoCall
    /\ \E caller \in Callers, to \in AccountId, id \in TokenId,
       value \in TokenBalance :
        Execute("mint", mint(Erc1155, caller, to, id, value))

MintBatch ==
    /\ result = NoCall
    /\ \E caller \in Callers, to \in AccountId, ids \in IdVecs,
       values \in ValueVecs :
        Execute("mint_batch", mint_batch(Erc1155, caller, to, ids, values))

Burn ==
    /\ result = NoCall
    /\ \E caller \in Callers, from \in AccountId, id \in TokenId,
       value \in TokenBalance :
        Execute("burn", burn(Erc1155, caller, from, id, value))

BurnBatch ==
    /\ result = NoCall
    /\ \E caller \in Callers, from \in AccountId, ids \in IdVecs,
       values \in ValueVecs :
        Execute("burn_batch", burn_batch(Erc1155, caller, from, ids, values))

\* The host hands the result to the caller and takes the emitted events.
HostReturn ==
    /\ result # NoCall
    /\ result' = NoCall
    /\ events' = <<>>
    /\ UNCHANGED <<balances, operator_approvals, overflow_checks>>

Next ==
    \/ BalanceOf
    \/ IsApprovedForAll
    \/ BalanceOfBatch
    \/ SetApprovalForAll
    \/ SafeTransferFrom
    \/ SafeBatchTransferFrom
    \/ Mint
    \/ MintBatch
    \/ Burn
    \/ BurnBatch
    \/ HostReturn

Spec == Init /\ [][Next]_vars

(***************************************************************************)
(* Properties.  The ledger states are the same whether or not a result is  *)
(* waiting for the host, so the properties that apply a message to every   *)
(* argument do it in the states where the host can start one.              *)
(***************************************************************************)
Idle == result = NoCall

Keys == AccountId \X TokenId

\* the total of token id over all accounts
RECURSIVE SumBalances(_, _, _)
SumBalances(self, id, accounts) ==
    IF accounts = {} THEN 0
    ELSE LET a == CHOOSE x \in accounts : TRUE
         IN  balance_of(self, a, id) + SumBalances(self, id, accounts \ {a})

TotalSupply(self, id) == SumBalances(self, id, AccountId)

\* the sum of values[j] over the indices j < k whose id is id
RECURSIVE PrefixSum(_, _, _, _)
PrefixSum(ids, values, k, id) ==
    IF k <= 1 THEN 0
    ELSE PrefixSum(ids, values, k - 1, id)
         + (IF ids[k - 1] = id THEN values[k - 1] ELSE 0)

(* C1: a successful safe_transfer_from(from, to, id, v) with from # to     *)
(* takes exactly v from balance_of(from, id), adds exactly v to            *)
(* balance_of(to, id), keeps the sum of the two and changes no other       *)
(* balance.                                                                *)
C1_TransferConservation ==
    Idle =>
    \A caller \in Callers, from \in AccountId, to \in AccountId,
       id \in TokenId, v \in TokenBalance :
        LET r == safe_transfer_from(Erc1155, caller, from, to, id, v)
        IN  (from # to /\ r.status = "Ok") =>
            /\ balance_of(r.self, from, id) = balance_of(Erc1155, from, id) - v
            /\ balance_of(r.self, to, id) = balance_of(Erc1155, to, id) + v
            /\ balance_of(r.self, from, id) + balance_of(r.self, to, id)
               = balance_of(Erc1155, from, id) + balance_of(Erc1155, to, id)
            /\ \A k \in Keys \ {<<from, id>>, <<to, id>>} :
                   balance_of(r.self, k[1], k[2]) = balance_of(Erc1155, k[1], k[2])

(* C2: safe_transfer_from to a non-zero account of more than from holds    *)
(* returns InsufficientBalance, leaves both maps exactly as they were and  *)
(* emits no event.                                                         *)
C2_InsufficientBalanceRejected ==
    Idle =>
    \A caller \in Callers, from \in AccountId, to \in AccountId \ {ZeroAccount},
       id \in TokenId, v \in TokenBalance :
        v > balance_of(Erc1155, from, id) =>
            LET r == safe_transfer_from(Erc1155, caller, from, to, id, v)
            IN  /\ r.status = "InsufficientBalance"
                /\ r.self = Erc1155
                /\ r.events = <<>>

\* a transfer was refused for want of balance while the ledger holds tokens
C2_Witness ==
    /\ result.op = "safe_transfer_from"
    /\ result.status = "InsufficientBalance"
    /\ events = <<>>
    /\ \E k \in DOMAIN balances : balances[k] > 0

(* C3: mint and safe_transfer_from with to the zero account, and burn and  *)
(* safe_transfer_from with from the zero account, fail with                *)
(* InvalidZeroAccount and change neither map, whatever id and value.       *)
C3_ZeroAccountRejected ==
    Idle =>
    \A caller \in Callers, a \in AccountId, id \in TokenId, v \in TokenBalance :
        LET rejected(r) == r.status = "InvalidZeroAccount" /\ r.self = Erc1155
        IN  /\ rejected(mint(Erc1155, caller, ZeroAccount, id, v))
            /\ rejected(safe_transfer_from(Erc1155, caller, a, ZeroAccount, id, v))
            /\ rejected(burn(Erc1155, caller, ZeroAccount, id, v))
            /\ rejected(safe_transfer_from(Erc1155, caller, ZeroAccount, a, id, v))

\* the pairs of an ids and a values vector of different lengths
MismatchedVecs == {p \in IdVecs \X ValueVecs : Len(p[1]) # Len(p[2])}

(* C4 as stated: every batch message called with vectors of different     *)
(* lengths fails with InvalidArrayLength and changes nothing, whatever the *)
(* other arguments, a zero from / to account included.                     *)
C4_LengthMismatchAlwaysInvalidArrayLength ==
    Idle =>
    LET rejected(r) == r.status = "InvalidArrayLength" /\ r.self = Erc1155
    IN  /\ \A caller \in Callers, from \in AccountId, to \in AccountId,
              p \in MismatchedVecs :
               rejected(safe_batch_transfer_from(Erc1155, caller, from, to,
                                                 p[1], p[2]))
        /\ \A caller \in Callers, to \in AccountId, p \in MismatchedVecs :
               rejected(mint_batch(Erc1155, caller, to, p[1], p[2]))
        /\ \A caller \in Callers, from \in AccountId, p \in MismatchedVecs :
               rejected(burn_batch(Erc1155, caller, from, p[1], p[2]))
        /\ \A accounts \in AccountVecs, ids \in IdVecs :
               Len(accounts) # Len(ids) =>
                   rejected(balance_of_batch(Erc1155, accounts, ids))

(* C4 amended: with vectors of different lengths safe_batch_transfer_from  *)
(* and balance_of_batch fail with InvalidArrayLength whatever the other    *)
(* arguments; mint_batch and burn_batch fail with InvalidArrayLength when  *)
(* their to / from account is not the zero account and with                *)
(* InvalidZeroAccount when it is; none of them changes either map or       *)
(* emits an event.                                                         *)
C4_LengthMismatchRejected ==
    Idle =>
    LET rejected(r, error) ==
            r.status = error /\ r.self = Erc1155 /\ r.events = <<>>
        error(account) == IF account = ZeroAccount
                          THEN "InvalidZeroAccount"
                          ELSE "InvalidArrayLength"
    IN  /\ \A caller \in Callers, from \in AccountId, to \in AccountId,
              p \in MismatchedVecs :
               rejected(safe_batch_transfer_from(Erc1155, caller, from, to,
                                                 p[1], p[2]),
                        "InvalidArrayLength")
        /\ \A caller \in Callers, to \in AccountId, p \in MismatchedVecs :
               rejected(mint_batch(Erc1155, caller, to, p[1], p[2]), error(to))
        /\ \A caller \in Callers, from \in AccountId, p \in MismatchedVecs :
               rejected(burn_batch(Erc1155, caller, from, p[1], p[2]),
                        error(from))
        /\ \A accounts \in AccountVecs, ids \in IdVecs :
               Len(accounts) # Len(ids) =>
                   rejected(balance_of_batch(Erc1155, accounts, ids),
                            "InvalidArrayLength")

\* a batch message was refused for its lengths while the ledger holds tokens
C4_Witness ==
    /\ result.op \in {"safe_batch_transfer_from", "mint_batch", "burn_batch",
                      "balance_of_batch"}
    /\ result.status = "InvalidArrayLength"
    /\ events = <<>>
    /\ \E k \in DOMAIN balances : balances[k] > 0

\* index k is short: what from holds of ids[k] when the loop gets there is
\* less than values[k].  With accumulate the earlier indices have debited
\* from; without it (a transfer to oneself) each debit was credited back.
Short(self, from, ids, values, k, accumulate) ==
    balance_of(self, from, ids[k])
        - (IF accumulate THEN PrefixSum(ids, values, k, ids[k]) ELSE 0)
    < values[k]

\* k is the first short index
FirstShort(self, from, ids, values, k, accumulate) ==
    /\ k \in 1..Len(ids)
    /\ Short(self, from, ids, values, k, accumulate)
    /\ \A j \in 1..(k - 1) : ~Short(self, from, ids, values, j, accumulate)

(* C5: when burn_batch or safe_batch_transfer_from passes its length and   *)
(* zero-account checks and k is the first index whose item fails, failing  *)
(* for want of balance, the call returns InsufficientBalance and emits no  *)
(* event; the debits (and, in the ledger's unsigned arithmetic, the        *)
(* credits) of the indices before k are in the ledger, and nothing else is *)
(* written: the only keys added are those of the indices before k.  A      *)
(* batch transfer in which an earlier index already panicked on the credit *)
(* has its first failure there and is not this case.                       *)
C5_BatchStopsAtFirstFailure ==
    Idle =>
    \A caller \in Callers, from \in AccountId, to \in AccountId,
       ids \in IdVecs, values \in ValueVecs :
        Len(ids) = Len(values) =>
        \A k \in 1..Len(ids) :
            /\ (from # ZeroAccount
                /\ FirstShort(Erc1155, from, ids, values, k, TRUE)) =>
                LET r == burn_batch(Erc1155, caller, from, ids, values)
                IN  /\ r.status = "InsufficientBalance"
                    /\ r.events = <<>>
                    /\ r.self.operator_approvals = operator_approvals
                    /\ DOMAIN r.self.balances
                       = DOMAIN balances \cup {<<from, ids[j]>> : j \in 1..(k - 1)}
                    /\ \A key \in Keys :
                           balance_of(r.self, key[1], key[2])
                           = balance_of(Erc1155, key[1], key[2])
                             - (IF key[1] = from
                                THEN PrefixSum(ids, values, k, key[2]) ELSE 0)
            /\ (to # ZeroAccount
                /\ FirstShort(Erc1155, from, ids, values, k, from # to)) =>
                LET r == safe_batch_transfer_from(Erc1155, caller, from, to,
                                                  ids, values)
                IN  r.status # "Panic" =>
                    /\ r.status = "InsufficientBalance"
                    /\ r.events = <<>>
                    /\ r.self.operator_approvals = operator_approvals
                    /\ DOMAIN r.self.balances
                       = DOMAIN balances
                         \cup {<<from, ids[j]>> : j \in 1..(k - 1)}
                         \cup {<<to, ids[j]>> : j \in 1..(k - 1)}
                    /\ \A key \in Keys :
                           balance_of(r.self, key[1], key[2])
                           = IF from = to \/ key[1] \notin {from, to}
                             THEN balance_of(Erc1155, key[1], key[2])
                             ELSE IF key[1] = from
                             THEN balance_of(Erc1155, from, key[2])
                                  - PrefixSum(ids, values, k, key[2])
                             ELSE (balance_of(Erc1155, to, key[2])
                                   + PrefixSum(ids, values, k, key[2])) % Modulus

\* a ledger in which a burn_batch and a batch transfer both get past their
\* first index, moving tokens, and fail at the second
C5_Witness ==
    /\ Idle
    /\ \E from \in Callers, to \in Callers, ids \in IdVecs,
          values \in ValueVecs :
        /\ from # to
        /\ Len(ids) = 2 /\ Len(values) = 2 /\ values[1] > 0
        /\ FirstShort(Erc1155, from, ids, values, 2, TRUE)
        /\ burn_batch(Erc1155, from, from, ids, values).status
           = "InsufficientBalance"
        /\ burn_batch(Erc1155, from, from, ids, values).self # Erc1155
        /\ safe_batch_transfer_from(Erc1155, from, from, to, ids, values).status
           = "InsufficientBalance"
        /\ safe_batch_transfer_from(Erc1155, from, from, to, ids, values).self
           # Erc1155

(* C6: set_approval_for_all with operator = caller fails with              *)
(* ApprovalForSelf for either value of approved, changes neither map and   *)
(* emits no event; in every reachable state is_approved_for_all(a, a) is   *)
(* false for every account a.                                              *)
C6_NoSelfApproval ==
    /\ \A a \in AccountId : ~is_approved_for_all(Erc1155, a, a)
    /\ Idle =>
       \A caller \in Callers, approved \in BOOLEAN :
           LET r == set_approval_for_all(Erc1155, caller, caller, approved)
           IN  /\ r.status = "ApprovalForSelf"
               /\ r.self = Erc1155
               /\ r.events = <<>>

\* a self-approval was refused in a ledger that holds a granted approval
C6_Witness ==
    /\ result.op = "set_approval_for_all"
    /\ result.status = "ApprovalForSelf"
    /\ events = <<>>
    /\ \E k \in DOMAIN operator_approvals : operator_approvals[k]

(* C7: for a caller a and an operator b # a, set_approval_for_all(b, x)    *)
(* succeeds and afterwards is_approved_for_all(a, b) = x, whether the      *)
(* entry was absent, true or false; two calls with true leave it true and  *)
(* a following call with false resets it; no other approval entry and no   *)
(* balance changes.                                                        *)
C7_ApprovalLastWriteWins ==
    Idle =>
    \A a \in Callers : \A b \in AccountId \ {a}, x \in BOOLEAN :
        LET r == set_approval_for_all(Erc1155, a, b, x)
            once == set_approval_for_all(Erc1155, a, b, TRUE)
            twice == set_approval_for_all(once.self, a, b, TRUE)
            reset == set_approval_for_all(twice.self, a, b, FALSE)
        IN  /\ r.status = "Ok"
            /\ is_approved_for_all(r.self, a, b) = x
            /\ DOMAIN r.self.operator_approvals
               = DOMAIN operator_approvals \cup {<<a, b>>}
            /\ \A k \in DOMAIN operator_approvals \ {<<a, b>>} :
                   r.self.operator_approvals[k] = operator_approvals[k]
            /\ r.self.balances = balances
            /\ once.status = "Ok" /\ twice.status = "Ok" /\ reset.status = "Ok"
            /\ is_approved_for_all(twice.self, a, b)
            /\ ~is_approved_for_all(reset.self, a, b)

\* an approval was just revoked: its entry is there and false, next to
\* another account's entry that is still true
C7_Witness ==
    /\ result.op = "set_approval_for_all"
    /\ result.status = "Ok"
    /\ Len(events) = 1
    /\ events[1].approved = FALSE
    /\ <<events[1].account, events[1].operator>> \in DOMAIN operator_approvals
    /\ ~operator_approvals[<<events[1].account, events[1].operator>>]
    /\ \E k \in DOMAIN operator_approvals : operator_approvals[k]

\* the messages that write
Mutating == {"set_approval_for_all", "safe_transfer_from",
             "safe_batch_transfer_from", "mint", "mint_batch", "burn",
             "burn_batch"}

(* C8: every mutating message that succeeds emits exactly one event and    *)
(* every message that fails emits none.  mint emits TransferSingle with    *)
(* operator the caller and from the zero account, burn TransferSingle with *)
(* to the zero account, safe_transfer_from TransferSingle(caller, from,    *)
(* to, id, value); each batch message emits one TransferBatch carrying the *)
(* whole ids and values vectors; set_approval_for_all emits                *)
(* ApprovalForAll(caller, operator, approved).                             *)
C8_EventEmission ==
    /\ Len(events) = (IF result.op \in Mutating /\ result.status = "Ok"
                      THEN 1 ELSE 0)
    /\ Idle =>
       LET emits(r, event) ==
               r.events = (IF r.status = "Ok" THEN <<event>> ELSE <<>>)
           single(operator, from, to, id, value) ==
               [event |-> "TransferSingle", operator |-> operator,
                from |-> from, to |-> to, id |-> id, value |-> value]
           batch(operator, from, to, ids, values) ==
               [event |-> "TransferBatch", operator |-> operator,
                from |-> from, to |-> to, ids |-> ids, values |-> values]
       IN  /\ \A caller \in Callers, from \in AccountId, to \in AccountId,
                 id \in TokenId, v \in TokenBalance :
                  /\ emits(mint(Erc1155, caller, to, id, v),
                           single(caller, ZeroAccount, to, id, v))
                  /\ emits(burn(Erc1155, caller, from, id, v),
                           single(caller, from, ZeroAccount, id, v))
                  /\ emits(safe_transfer_from(Erc1155, caller, from, to, id, v),
                           single(caller, from, to, id, v))
           /\ \A caller \in Callers, from \in AccountId, to \in AccountId,
                 ids \in IdVecs, values \in ValueVecs :
                  emits(safe_batch_transfer_from(Erc1155, caller, from, to,
                                                 ids, values),
                        batch(caller, from, to, ids, values))
           /\ \A caller \in Callers, a \in AccountId, ids \in IdVecs,
                 values \in ValueVecs :
                  /\ emits(mint_batch(Erc1155, caller, a, ids, values),
                           batch(caller, ZeroAccount, a, ids, values))
                  /\ emits(burn_batch(Erc1155, caller, a, ids, values),
                           batch(caller, a, ZeroAccount, ids, values))
           /\ \A caller \in Callers, operator \in AccountId, approved \in BOOLEAN :
                  emits(set_approval_for_all(Erc1155, caller, operator, approved),
                        [event |-> "ApprovalForAll", account |-> caller,
                         operator |-> operator, approved |-> approved])

\* a mint by a caller other than the receiver has emitted its one event
C8_Witness ==
    /\ result.op = "mint"
    /\ result.status = "Ok"
    /\ Len(events) = 1
    /\ events[1].operator # events[1].to
    /\ events[1].from = ZeroAccount
    /\ events[1].value > 0
    /\ balances[<<events[1].to, events[1].id>>] = events[1].value

(* C9: from any reachable state, for any account to other than the zero   *)
(* account, any id and any value v, mint(to, id, v) followed at once by    *)
(* burn(to, id, v) both succeed and leave balance_of(to, id) as it was     *)
(* before the mint.                                                        *)
C9_MintBurnRoundTrip ==
    Idle =>
    \A caller \in Callers, to \in AccountId \ {ZeroAccount}, id \in TokenId,
       v \in TokenBalance :
        LET minted == mint(Erc1155, caller, to, id, v)
            burned == burn(committed(Erc1155, minted), caller, to, id, v)
        IN  /\ minted.status = "Ok"
            /\ burned.status = "Ok"
            /\ balance_of(committed(committed(Erc1155, minted), burned), to, id)
               = balance_of(Erc1155, to, id)

(* C10: for every token id the sum of balance_of(a, id) over all accounts  *)
(* is left unchanged by every safe_transfer_from and                       *)
(* safe_batch_transfer_from call, whether it succeeds, fails or is applied *)
(* in part, transfers to oneself included.                                 *)
C10_TransfersConserveSupply ==
    Idle =>
    \A caller \in Callers, from \in AccountId, to \in AccountId :
        /\ \A id \in TokenId, v \in TokenBalance, t \in TokenId :
               TotalSupply(committed(Erc1155,
                               safe_transfer_from(Erc1155, caller, from, to,
                                                  id, v)), t)
               = TotalSupply(Erc1155, t)
        /\ \A ids \in IdVecs, values \in ValueVecs, t \in TokenId :
               TotalSupply(committed(Erc1155,
                               safe_batch_transfer_from(Erc1155, caller, from,
                                                        to, ids, values)), t)
               = TotalSupply(Erc1155, t)

(* C11: every successful mint(to, id, value) strictly increases the sum   *)
(* of all balances of id and every successful burn(from, id, value)        *)
(* strictly decreases it, for every value the message accepts.             *)
C11_MintBurnStrict ==
    Idle =>
    \A caller \in Callers, a \in AccountId, id \in TokenId, v \in TokenBalance :
        LET minted == mint(Erc1155, caller, a, id, v)
            burned == burn(Erc1155, caller, a, id, v)
        IN  /\ minted.status = "Ok" =>
                TotalSupply(minted.self, id) > TotalSupply(Erc1155, id)
            /\ burned.status = "Ok" =>
                TotalSupply(burned.self, id) < TotalSupply(Erc1155, id)

\* the (account, id) pairs whose balance the message that returned r took
\* away from zero
Raised(r) ==
    LET after == committed(Erc1155, r)
    IN  {k \in Keys : /\ balance_of(Erc1155, k[1], k[2]) = 0
                      /\ balance_of(after, k[1], k[2]) # 0}

(* C12: a freshly constructed ledger reports balance_of(a, t) = 0 for      *)
(* every account and id and is_approved_for_all(a, b) = FALSE for every    *)
(* pair; afterwards the only step that takes balance_of(a, t) away from 0  *)
(* is a mint, mint_batch, safe_transfer_from or safe_batch_transfer_from   *)
(* whose destination is a and whose id, or one of whose ids, is t.         *)
C12_ZeroUntilCredited ==
    /\ (balances = new.balances /\ operator_approvals = new.operator_approvals) =>
        /\ \A k \in Keys : balance_of(Erc1155, k[1], k[2]) = 0
        /\ \A a \in AccountId, b \in AccountId :
               ~is_approved_for_all(Erc1155, a, b)
    /\ Idle =>
       \A caller \in Callers, x \in AccountId :
           /\ \A id \in TokenId, v \in TokenBalance :
               /\ Raised(mint(Erc1155, caller, x, id, v)) \subseteq {<<x, id>>}
               /\ Raised(burn(Erc1155, caller, x, id, v)) = {}
               /\ \A from \in AccountId :
                      Raised(safe_transfer_from(Erc1155, caller, from, x, id, v))
                          \subseteq {<<x, id>>}
           /\ \A ids \in IdVecs, values \in ValueVecs :
               /\ Raised(mint_batch(Erc1155, caller, x, ids, values))
                      \subseteq {<<x, ids[i]>> : i \in 1..Len(ids)}
               /\ Raised(burn_batch(Erc1155, caller, x, ids, values)) = {}
               /\ \A from \in AccountId :
                      Raised(safe_batch_transfer_from(Erc1155, caller, from, x,
                                                      ids, values))
                          \subseteq {<<x, ids[i]>> : i \in 1..Len(ids)}
           /\ \A approved \in BOOLEAN :
                  Raised(set_approval_for_all(Erc1155, caller, x, approved)) = {}

\* a batch mint has just taken a balance of its receiver away from zero
C12_Witness ==
    /\ result.op = "mint_batch"
    /\ result.status = "Ok"
    /\ Len(events) = 1
    /\ Len(events[1].ids) = 2
    /\ balance_of(Erc1155, events[1].to, events[1].ids[2]) > 0
    /\ \E k \in Keys : balance_of(Erc1155, k[1], k[2]) = 0

\* the messages that take &self
Reading == {"balance_of", "balance_of_batch", "is_approved_for_all"}

\* balance_of_batch answers index by index with balance_of
BatchReadsPairwise ==
    Idle =>
    \A accounts \in AccountVecs, ids \in IdVecs :
        Len(accounts) = Len(ids) =>
            LET r == balance_of_batch(Erc1155, accounts, ids)
            IN  /\ r.status = "Ok"
                /\ Len(r.value) = Len(accounts)
                /\ \A i \in 1..Len(accounts) :
                       r.value[i] = balance_of(Erc1155, accounts[i], ids[i])
                /\ r.self = Erc1155

\* a step of a reading message leaves both maps as they were, keys included
ReadsWriteNothing ==
    result'.op \in Reading =>
        /\ balances' = balances
        /\ operator_approvals' = operator_approvals
        /\ events' = <<>>

(* C13: balance_of_batch(accounts, ids) with vectors of equal length       *)
(* returns a vector of that length whose i-th element is                   *)
(* balance_of(accounts[i], ids[i]), repeated pairs giving repeated values; *)
(* neither it nor balance_of nor is_approved_for_all changes the balances  *)
(* map or the approvals map: a read creates no entry.                      *)
C13_BatchReadPairwise == []BatchReadsPairwise /\ [][ReadsWriteNothing]_vars

\* a batch read has returned two different balances, and single reads of
\* pairs that have no entry are possible in the same ledger
C13_Witness ==
    /\ result.op = "balance_of_batch"
    /\ result.status = "Ok"
    /\ Len(result.value) = 2
    /\ result.value[1] # result.value[2]
    /\ \E k \in Keys : k \notin DOMAIN balances

\* the same balances under an approvals map with no entry
Unapproved == [balances |-> balances, operator_approvals |-> <<>>]

\* the caller every run is compared with
AnyCaller == CHOOSE c \in Callers : TRUE

\* two results agree on what is returned and on the balances left behind
SameOutcome(self, r, other, q) ==
    /\ r.status = q.status
    /\ committed(self, r).balances = committed(other, q).balances

C15_NoZeroAccountEntry ==
    \A k \in DOMAIN balances : k[1] # ZeroAccount

(* C16: the null account never holds a real balance: in every reachable    *)
(* state balance_of(null, id) = 0 for every token id, after any sequence   *)
(* of operations with any arguments.                                       *)
C16_ZeroAccountHoldsNothing ==
    \A id \in TokenId : balance_of(Erc1155, ZeroAccount, id) = 0

\* a transfer out of the null account has succeeded in a ledger that holds
\* tokens, and the null account has an entry
C16_Witness ==
    /\ result.op = "safe_transfer_from"
    /\ result.status = "Ok"
    /\ Len(events) = 1
    /\ events[1].from = ZeroAccount
    /\ <<ZeroAccount, events[1].id>> \in DOMAIN balances
    /\ balance_of(Erc1155, events[1].to, events[1].id) > 0

\* the single calls safe_transfer_from(from, to, ids[j], values[j]) for
\* j = i, i + 1, ... made one after the other, each on the ledger the one
\* before it left
RECURSIVE transfer_calls(_, _, _, _, _, _, _)
transfer_calls(self, caller, from, to, ids, values, i) ==
    IF i > Len(ids)
    THEN [ok |-> TRUE, self |-> self]
    ELSE LET r == safe_transfer_from(self, caller, from, to, ids[i], values[i])
             rest == transfer_calls(committed(self, r), caller, from, to,
                                    ids, values, i + 1)
         IN  [ok |-> r.status = "Ok" /\ rest.ok, self |-> rest.self]

\* the same for mint(to, ids[j], values[j])
RECURSIVE mint_calls(_, _, _, _, _, _)
mint_calls(self, caller, to, ids, values, i) ==
    IF i > Len(ids)
    THEN [ok |-> TRUE, self |-> self]
    ELSE LET r == mint(self, caller, to, ids[i], values[i])
             rest == mint_calls(committed(self, r), caller, to, ids, values,
                                i + 1)
         IN  [ok |-> r.status = "Ok" /\ rest.ok, self |-> rest.self]

\* the same for burn(from, ids[j], values[j])
RECURSIVE burn_calls(_, _, _, _, _, _)
burn_calls(self, caller, from, ids, values, i) ==
    IF i > Len(ids)
    THEN [ok |-> TRUE, self |-> self]
    ELSE LET r == burn(self, caller, from, ids[i], values[i])
             rest == burn_calls(committed(self, r), caller, from, ids, values,
                                i + 1)
         IN  [ok |-> r.status = "Ok" /\ rest.ok, self |-> rest.self]

\* a batch result b against the outcome s of the single calls: a successful
\* batch means every single call succeeds and leaves the same balances, and
\* for vectors of one non-zero length the batch succeeds when they all do
BatchAsCalls(b, s, ids, values) ==
    /\ b.status = "Ok" => s.ok /\ s.self.balances = b.self.balances
    /\ (Len(ids) = Len(values) /\ Len(ids) > 0 /\ s.ok) => b.status = "Ok"

\* every prefix of the batch is affordable out of from's balances
Affordable(from, ids, values) ==
    \A k \in 1..Len(ids) : ~Short(Erc1155, from, ids, values, k, TRUE)

(* C17: a successful safe_batch_transfer_from(from, to, ids, values)       *)
(* leaves the balances exactly as the single safe_transfer_from(from, to,  *)
(* ids[i], values[i]) calls made in input order would; each index is       *)
(* checked against the balance the earlier indices left, so with a         *)
(* repeated id the debits accumulate and the batch succeeds only if every  *)
(* prefix is affordable.  The same holds between mint_batch and mint calls *)
(* and between burn_batch and burn calls.                                  *)
C17_BatchIsSequenceOfCalls ==
    Idle =>
    \A caller \in Callers, x \in AccountId, ids \in IdVecs, values \in ValueVecs :
        /\ \A to \in AccountId :
               LET b == safe_batch_transfer_from(Erc1155, caller, x, to, ids, values)
               IN  /\ BatchAsCalls(b, transfer_calls(Erc1155, caller, x, to,
                                                     ids, values, 1),
                                   ids, values)
                   /\ (b.status = "Ok" /\ x # to) => Affordable(x, ids, values)
        /\ BatchAsCalls(mint_batch(Erc1155, caller, x, ids, values),
                        mint_calls(Erc1155, caller, x, ids, values, 1),
                        ids, values)
        /\ LET b == burn_batch(Erc1155, caller, x, ids, values)
           IN  /\ BatchAsCalls(b, burn_calls(Erc1155, caller, x, ids, values, 1),
                               ids, values)
               /\ b.status = "Ok" => Affordable(x, ids, values)

\* a batch transfer between two accounts has succeeded with the same id at
\* both indices and a positive amount moved
C17_Witness ==
    /\ result.op = "safe_batch_transfer_from"
    /\ result.status = "Ok"
    /\ Len(events) = 1
    /\ Len(events[1].ids) = 2
    /\ events[1].ids[1] = events[1].ids[2]
    /\ events[1].from # events[1].to
    /\ events[1].values[1] + events[1].values[2] > 0
    /\ balance_of(Erc1155, events[1].to, events[1].ids[1]) > 0

\* the errors of the enum that no message is meant to return
Unreachable == {"NotOwnerOrNotApproved", "CannotFetchValue", "CannotInsert"}

(* C18: NotOwnerOrNotApproved, CannotFetchValue and CannotInsert are       *)
(* unreachable: in no reachable state and for no arguments does a message  *)
(* return one of them.  set_approval_for_all takes its update-in-place     *)
(* branch only when the (caller, operator) entry exists, so its lookup     *)
(* never fails with CannotFetchValue.                                      *)
C18_UnreachableErrors ==
    /\ result.status \notin Unreachable
    /\ Idle =>
       \A caller \in Callers, x \in AccountId :
           /\ \A approved \in BOOLEAN :
                  /\ set_approval_for_all(Erc1155, caller, x, approved).status
                         \notin Unreachable
                  /\ approved_for_all(Erc1155, caller, x) =>
                         <<caller, x>> \in DOMAIN operator_approvals
           /\ \A id \in TokenId, value \in TokenBalance :
                  /\ mint(Erc1155, caller, x, id, value).status \notin Unreachable
                  /\ burn(Erc1155, caller, x, id, value).status \notin Unreachable
                  /\ \A to \in AccountId :
                         safe_transfer_from(Erc1155, caller, x, to, id, value).status
                             \notin Unreachable
           /\ \A ids \in IdVecs, values \in ValueVecs :
                  /\ mint_batch(Erc1155, caller, x, ids, values).status
                         \notin Unreachable
                  /\ burn_batch(Erc1155, caller, x, ids, values).status
                         \notin Unreachable
                  /\ \A to \in AccountId :
                         safe_batch_transfer_from(Erc1155, caller, x, to, ids,
                                                  values).status
                             \notin Unreachable
           /\ \A ids \in IdVecs, accounts \in AccountVecs :
                  balance_of_batch(Erc1155, accounts, ids).status \notin Unreachable

\* an approval is in force and revoking it, through the update-in-place
\* branch, succeeds
C18_Witness ==
    /\ Idle
    /\ \E caller \in Callers, operator \in AccountId :
           /\ approved_for_all(Erc1155, caller, operator)
           /\ set_approval_for_all(Erc1155, caller, operator, FALSE).status = "Ok"
           /\ ~approved_for_all(
                  set_approval_for_all(Erc1155, caller, operator, FALSE).self,
                  caller, operator)

\* the two errors of the checks made before a batch loop
Validation == {"InvalidArrayLength", "InvalidZeroAccount"}

\* a result that is one of the two validation errors left the ledger alone
ValidatedFirst(r) == r.status \in Validation => r.self = Erc1155

(* C19: when a batch message is given both faults, vectors of different    *)
(* lengths and the null account, safe_batch_transfer_from checks the       *)
(* lengths first and returns InvalidArrayLength, whereas mint_batch and    *)
(* burn_batch check the null account first and return InvalidZeroAccount;  *)
(* in all three both checks come before the first balance write, so        *)
(* either error, on any arguments, means an unchanged ledger.              *)
C19_ValidationOrder ==
    Idle =>
    \A caller \in Callers :
        /\ \A p \in MismatchedVecs :
               /\ \A from \in AccountId :
                      safe_batch_transfer_from(Erc1155, caller, from, ZeroAccount,
                                               p[1], p[2]).status
                          = "InvalidArrayLength"
               /\ mint_batch(Erc1155, caller, ZeroAccount, p[1], p[2]).status
                      = "InvalidZeroAccount"
               /\ burn_batch(Erc1155, caller, ZeroAccount, p[1], p[2]).status
                      = "InvalidZeroAccount"
        /\ \A x \in AccountId, ids \in IdVecs, values \in ValueVecs :
               /\ \A to \in AccountId :
                      ValidatedFirst(safe_batch_transfer_from(Erc1155, caller, x,
                                                              to, ids, values))
               /\ ValidatedFirst(mint_batch(Erc1155, caller, x, ids, values))
               /\ ValidatedFirst(burn_batch(Erc1155, caller, x, ids, values))

\* burn_batch has refused the null account in a ledger that holds tokens,
\* and on that ledger a call with both faults gets the two different errors
C19_Witness ==
    /\ result.op = "burn_batch"
    /\ result.status = "InvalidZeroAccount"
    /\ events = <<>>
    /\ \E k \in DOMAIN balances : balances[k] > 0
    /\ \E caller \in Callers, p \in MismatchedVecs :
           /\ burn_batch(Erc1155, caller, ZeroAccount, p[1], p[2]).status
                  = "InvalidZeroAccount"
           /\ safe_batch_transfer_from(Erc1155, caller, caller, ZeroAccount,
                                       p[1], p[2]).status
                  = "InvalidArrayLength"

\* the whole of what a batch asks for of token id
Asked(ids, values, id) == PrefixSum(ids, values, Len(ids) + 1, id)

(* C20: balance arithmetic is checked, not wrapped: no mint, mint_batch or *)
(* transfer credit stores a balance that differs from old balance + value  *)
(* by a wrap modulo 2^w, no debit stores a value wrapped below zero, and   *)
(* every stored balance lies in 0 .. 2^w - 1.                              *)
C20_ArithmeticExact ==
    /\ \A k \in DOMAIN balances : balances[k] \in 0..MaxBalance
    /\ Idle =>
       \A caller \in Callers, x \in AccountId :
           /\ \A id \in TokenId, value \in TokenBalance :
                  /\ LET r == mint(Erc1155, caller, x, id, value)
                     IN  r.status = "Ok" =>
                             balance_of(r.self, x, id)
                                 = balance_of(Erc1155, x, id) + value
                  /\ LET r == burn(Erc1155, caller, x, id, value)
                     IN  r.status = "Ok" =>
                             balance_of(r.self, x, id)
                                 = balance_of(Erc1155, x, id) - value
                  /\ \A to \in AccountId \ {x} :
                         LET r == safe_transfer_from(Erc1155, caller, x, to, id,
                                                     value)
                         IN  r.status = "Ok" =>
                                 /\ balance_of(r.self, to, id)
                                        = balance_of(Erc1155, to, id) + value
                                 /\ balance_of(r.self, x, id)
                                        = balance_of(Erc1155, x, id) - value
           /\ \A ids \in IdVecs, values \in ValueVecs :
                  LET r == mint_batch(Erc1155, caller, x, ids, values)
                  IN  r.status = "Ok" =>
                          \A id \in TokenId :
                              balance_of(r.self, x, id)
                                  = balance_of(Erc1155, x, id)
                                        + Asked(ids, values, id)

=============================================================================
